---- MODULE Spec2Model ----
(***************************************************************************)
(* pg-basic front end: the line tokenizer (src/tokenizer.js) and the       *)
(* recursive-descent statement parser (src/unnamed/part_000).              *)
(*                                                                         *)
(* Text is a TLA+ string; a character is a string of length one.  A token  *)
(* is a record [type, lexeme, num, frac]: JavaScript's lexeme is a string  *)
(* for every token type except 'lineno' and 'number', whose lexeme is a    *)
(* Number; that Number is held in num (integer part) and frac (the digits  *)
(* after the point, trailing zeros dropped) and lexeme is then "".         *)
(***************************************************************************)
EXTENDS Integers, Sequences, FiniteSets, TLC

(***************************************************************************)
(* Characters                                                              *)
(***************************************************************************)
LowerLetters == "abcdefghijklmnopqrstuvwxyz"
UpperLetters == "ABCDEFGHIJKLMNOPQRSTUVWXYZ"
Digits == "0123456789"

CharAt(s, i) == SubSeq(s, i, i)

\* The characters of a string, as a set.
Chars(s) == {CharAt(s, i) : i \in 1..Len(s)}

\* The position of character c in the string s, 0 when it is not there.
IndexIn(c, s) ==
  LET at == {i \in 1..Len(s) : CharAt(s, i) = c}
  IN IF at = {} THEN 0 ELSE CHOOSE i \in at : \A j \in at : i <= j

\* The character classes of the patterns: \d, [a-z] with flag i, and \s
\* over the characters the input lines are made of.
DigitClass == Chars(Digits)
LetterClass == Chars(LowerLetters) \cup Chars(UpperLetters)
SpaceClass == {" ", "\t"}

\* String.prototype.toUpperCase, on one character and on a string.
UpperOf == [c \in Chars(LowerLetters) |-> CharAt(UpperLetters, IndexIn(c, LowerLetters))]
UpperChar(c) == IF c \in DOMAIN UpperOf THEN UpperOf[c] ELSE c

RECURSIVE toUpperCase(_)
toUpperCase(s) ==
  IF s = "" THEN "" ELSE UpperChar(Head(s)) \o toUpperCase(Tail(s))

\* s.slice(n)
Slice(s, n) == SubSeq(s, n + 1, Len(s))

\* The number of characters of s, from position i on, that a starred
\* character class cls* takes (greedy, and nothing after it backtracks).
RECURSIVE Run(_, _, _)
Run(cls, s, i) ==
  IF i <= Len(s) /\ CharAt(s, i) \in cls
  THEN 1 + Run(cls, s, i + 1)
  ELSE 0

\* parseInt / parseFloat of a digit string: the decimal value.
RECURSIVE DigitsValue(_)
DigitsValue(d) ==
  IF d = "" THEN 0
  ELSE 10 * DigitsValue(SubSeq(d, 1, Len(d) - 1))
         + (IndexIn(CharAt(d, Len(d)), Digits) - 1)

\* The digits after the point that decide a Number's value: trailing zeros
\* do not (parseFloat("1.50") is parseFloat("1.5"), parseFloat("1.0") is 1).
RECURSIVE StripZeros(_)
StripZeros(d) ==
  IF d # "" /\ CharAt(d, Len(d)) = "0"
  THEN StripZeros(SubSeq(d, 1, Len(d) - 1))
  ELSE d

(***************************************************************************)
(* Tokens                                                                  *)
(***************************************************************************)
Token(type, lexeme) == [type |-> type, lexeme |-> lexeme, num |-> 0, frac |-> ""]
NumberToken(type, n, f) == [type |-> type, lexeme |-> "", num |-> n, frac |-> f]

NumericTypes == {"lineno", "number"}

\* t.lexeme === s for a string s: never true of a Number lexeme.
LexemeIs(t, s) == t.type \notin NumericTypes /\ t.lexeme = s

eof == Token("eof", "")

\* No token: the value of a variable nothing was assigned to.
Undefined == Token("undefined", "")

KEYWORDS ==
  << "IF", "THEN", "ELSE", "FOR", "ON", "TO", "STEP", "GOTO", "GOSUB",
     "RETURN", "NEXT", "INPUT", "LET", "CLC", "CLT", "CLS", "END", "PRINT",
     "PLOT", "DRAW", "UNDRAW", "ARRAY", "DIM", "DATA", "READ", "REM",
     "PAUSE", "STOP" >>

CONSTANTS_ == << "LEVEL", "PI" >>

\* Object.keys(Functions): the names of the function registry.
FunctionNames == << "ABS", "RND" >>

expressionTypes ==
  {"string", "function", "operation", "number", "variable", "logic", "constant"}

(***************************************************************************)
(* The patterns.  A match is [len, g]: len the length of m[0] (0: no       *)
(* match, or an empty one, which `m && m[0]` rejects alike) and g the      *)
(* first group m[1].                                                       *)
(***************************************************************************)
NoMatch == [len |-> 0, g |-> ""]

\* ^(w1|w2|...)\s* with flag i: the alternatives are tried in order.
MatchWords(words, s) ==
  LET longest == CHOOSE n \in {Len(words[k]) : k \in 1..Len(words)} :
                   \A k \in 1..Len(words) : Len(words[k]) <= n
      upper == toUpperCase(SubSeq(s, 1, IF Len(s) < longest THEN Len(s) ELSE longest))
      hits == {k \in 1..Len(words) :
                 /\ Len(words[k]) <= Len(s)
                 /\ SubSeq(upper, 1, Len(words[k])) = words[k]}
  IN IF hits = {} THEN NoMatch
     ELSE LET k == CHOOSE h \in hits : \A o \in hits : h <= o
              n == Len(words[k])
          IN [len |-> n + Run(SpaceClass, s, n + 1), g |-> SubSeq(s, 1, n)]

\* LINE = /^\s*(\d+)\s*/
LINE(s) ==
  LET a == Run(SpaceClass, s, 1)
      d == Run(DigitClass, s, a + 1)
  IN IF d = 0 THEN NoMatch
     ELSE [len |-> a + d + Run(SpaceClass, s, a + d + 1),
           g |-> SubSeq(s, a + 1, a + d)]

\* The end of (\\.|[^"\\])* from position i: the position after the last
\* character the group can take.
RECURSIVE QuoteBody(_, _)
QuoteBody(s, i) ==
  IF i > Len(s) THEN i
  ELSE IF CharAt(s, i) = "\\"
       THEN IF i + 1 <= Len(s) THEN QuoteBody(s, i + 2) ELSE i
       ELSE IF CharAt(s, i) = "\"" THEN i ELSE QuoteBody(s, i + 1)

\* QUOTE = /^"((\\.|[^"\\])*)"\s*/
QUOTE(s) ==
  IF Len(s) = 0 \/ CharAt(s, 1) # "\"" THEN NoMatch
  ELSE LET e == QuoteBody(s, 2)
       IN IF e <= Len(s) /\ CharAt(s, e) = "\""
          THEN [len |-> e + Run(SpaceClass, s, e + 1), g |-> SubSeq(s, 2, e - 1)]
          ELSE NoMatch

KEY(s) == MatchWords(KEYWORDS, s)
FUN(s) == MatchWords(FunctionNames, s)
CONST(s) == MatchWords(CONSTANTS_, s)
LOGIC(s) == MatchWords(<< "AND", "OR" >>, s)

\* VAR = /^([a-z][0-9]*)\$?\s*/i
\* A variant of VAR without the optional `$`.
VAR_NoMarker(s) ==
  IF Len(s) = 0 \/ CharAt(s, 1) \notin LetterClass THEN NoMatch
  ELSE LET n == 1 + Run(DigitClass, s, 2)
       IN [len |-> n + Run(SpaceClass, s, n + 1), g |-> SubSeq(s, 1, n)]

VAR(s) ==
  IF Len(s) = 0 \/ CharAt(s, 1) \notin LetterClass THEN NoMatch
  ELSE LET n == 1 + Run(DigitClass, s, 2)
           m == IF n + 1 <= Len(s) /\ CharAt(s, n + 1) = "$" THEN n + 1 ELSE n
       IN [len |-> m + Run(SpaceClass, s, m + 1), g |-> SubSeq(s, 1, n)]

\* NUM = /^(\d+(\.\d+)?)\s*/i
NUM(s) ==
  LET d == Run(DigitClass, s, 1)
      f == IF d + 1 <= Len(s) /\ CharAt(s, d + 1) = "."
           THEN Run(DigitClass, s, d + 2) ELSE 0
      n == IF f > 0 THEN d + 1 + f ELSE d
  IN IF d = 0 THEN NoMatch
     ELSE [len |-> n + Run(SpaceClass, s, n + 1), g |-> SubSeq(s, 1, n)]

OneCharOps == Chars(",+-*/%=<>()][")

\* A variant of OP whose alternation tries the one-character class first.
OP_OneCharFirst(s) ==
  IF Len(s) >= 1 /\ CharAt(s, 1) \in OneCharOps
  THEN [len |-> 1 + Run(SpaceClass, s, 2), g |-> SubSeq(s, 1, 1)]
  ELSE NoMatch

\* OP = /^(<>|>=|<=|[,\+\-\*\/%=<>\(\)\]\[])\s*/i
OP(s) ==
  LET two == SubSeq(s, 1, 2)
      n == IF Len(s) >= 2 /\ two \in {"<>", ">=", "<="} THEN 2
           ELSE IF Len(s) >= 1 /\ CharAt(s, 1) \in OneCharOps THEN 1
           ELSE 0
  IN IF n = 0 THEN NoMatch
     ELSE [len |-> n + Run(SpaceClass, s, n + 1), g |-> SubSeq(s, 1, n)]

\* LINEMOD = /^(;)\s*/i
LINEMOD(s) ==
  IF Len(s) >= 1 /\ CharAt(s, 1) = ";"
  THEN [len |-> 1 + Run(SpaceClass, s, 2), g |-> ";"]
  ELSE NoMatch

(***************************************************************************)
(* The eat* methods on the remaining input s: eaten is the length of the   *)
(* string returned (0 for null) and push the tokens pushed.                *)
(***************************************************************************)
NotEaten == [eaten |-> 0, push |-> << >>]

\* A variant of eatKeyword that treats REM as any other keyword: the rest of
\* the line is left to the scan loop.
eatKeyword_RemScanned(s) ==
  LET m == KEY(s)
  IN IF m.len = 0 THEN NotEaten
     ELSE [eaten |-> m.len, push |-> << Token("keyword", toUpperCase(m.g)) >>]

eatKeyword(s) ==
  LET m == KEY(s)
      keyword == toUpperCase(m.g)
  IN IF m.len = 0 THEN NotEaten
     ELSE IF keyword = "REM"
          \* the comment token takes the rest of the line, and the whole
          \* of this.stmnt is returned as eaten
          THEN [eaten |-> Len(s),
                push |-> << Token("keyword", keyword),
                            Token("comment", Slice(s, m.len)) >>]
          ELSE [eaten |-> m.len, push |-> << Token("keyword", keyword) >>]

eatQuote(s) ==
  LET m == QUOTE(s)
  IN IF m.len = 0 THEN NotEaten
     ELSE [eaten |-> m.len, push |-> << Token("string", "\"" \o m.g \o "\"") >>]

eatLogic(s) ==
  LET m == LOGIC(s)
  IN IF m.len = 0 THEN NotEaten
     ELSE [eaten |-> m.len, push |-> << Token("logic", toUpperCase(m.g)) >>]

eatFunction(s) ==
  LET m == FUN(s)
  IN IF m.len = 0 THEN NotEaten
     ELSE [eaten |-> m.len, push |-> << Token("function", toUpperCase(m.g)) >>]

eatConstant(s) ==
  LET m == CONST(s)
  IN IF m.len = 0 THEN NotEaten
     ELSE [eaten |-> m.len, push |-> << Token("constant", toUpperCase(m.g)) >>]

\* A variant of eatVariable that keeps the name as it is written.
eatVariable_AsWritten(s) ==
  LET m == VAR(s)
  IN IF m.len = 0 THEN NotEaten
     ELSE [eaten |-> m.len, push |-> << Token("variable", m.g) >>]

eatVariable(s) ==
  LET m == VAR(s)
  IN IF m.len = 0 THEN NotEaten
     ELSE [eaten |-> m.len, push |-> << Token("variable", toUpperCase(m.g)) >>]

\* parseFloat of a match of NUM is never NaN: the isNaN branch is dead.
eatNumber(s) ==
  LET m == NUM(s)
      d == Run(DigitClass, m.g, 1)
  IN IF m.len = 0 THEN NotEaten
     ELSE [eaten |-> m.len,
           push |-> << NumberToken("number", DigitsValue(SubSeq(m.g, 1, d)),
                                   StripZeros(Slice(m.g, d + 1))) >>]

eatOperation(s) ==
  LET m == OP(s)
  IN IF m.len = 0 THEN NotEaten
     ELSE [eaten |-> m.len, push |-> << Token("operation", m.g) >>]

eatLineMod(s) ==
  LET m == LINEMOD(s)
  IN IF m.len = 0 THEN NotEaten
     ELSE [eaten |-> m.len, push |-> << Token("linemod", "\"" \o m.g \o "\"") >>]

\* A variant of Eat whose chain tries eatVariable first.
Eat_VariableFirst(s) ==
  LET chain == << eatVariable(s), eatKeyword(s), eatQuote(s), eatLogic(s),
                  eatFunction(s), eatConstant(s), eatNumber(s),
                  eatOperation(s), eatLineMod(s) >>
      hits == {k \in 1..Len(chain) : chain[k].eaten > 0}
  IN IF hits = {} THEN NotEaten
     ELSE chain[CHOOSE h \in hits : \A o \in hits : h <= o]

\* The || chain of the scan loop: the first method that eats.
Eat(s) ==
  LET chain == << eatKeyword(s), eatQuote(s), eatLogic(s), eatFunction(s),
                  eatConstant(s), eatVariable(s), eatNumber(s),
                  eatOperation(s), eatLineMod(s) >>
      hits == {k \in 1..Len(chain) : chain[k].eaten > 0}
  IN IF hits = {} THEN NotEaten
     ELSE chain[CHOOSE h \in hits : \A o \in hits : h <= o]

\* The scan loop of tokenize() on the remaining input s, ts being the
\* tokens pushed so far: ok tells whether it ran to the end of the input
\* (FALSE: it threw), tokens what this.tokens is then.
RECURSIVE ScanLoop(_, _)
ScanLoop(s, ts) ==
  IF s = "" THEN [ok |-> TRUE, tokens |-> ts]
  ELSE LET e == Eat(s)
       IN IF e.eaten = 0 THEN [ok |-> FALSE, tokens |-> ts]
          ELSE ScanLoop(Slice(s, e.eaten), ts \o e.push)

\* Tokenizer.tokenizeLine(line): new Tokenizer(line), tokenize(), and the
\* tokens; ok is FALSE when tokenize() threw.
tokenizeLine(s) ==
  LET linem == LINE(s)
  IN IF linem.len = 0 THEN [ok |-> FALSE, tokens |-> << >>]
     ELSE ScanLoop(Slice(s, linem.len),
                   << NumberToken("lineno", DigitsValue(linem.g), "") >>)

(***************************************************************************)
(* Errors: err.name is the class thrown; ParseError carries the line       *)
(* number it was given, Error and TypeError carry only a message.          *)
(***************************************************************************)
NoError == [name |-> "", hasLineno |-> FALSE, lineno |-> 0, message |-> ""]
ParseError(n, msg) ==
  [name |-> "ParseError", hasLineno |-> TRUE, lineno |-> n, message |-> msg]
Error(msg) == [name |-> "Error", hasLineno |-> FALSE, lineno |-> 0, message |-> msg]
TypeError(msg) ==
  [name |-> "TypeError", hasLineno |-> FALSE, lineno |-> 0, message |-> msg]

(***************************************************************************)
(* Statement nodes and values.  The node classes are plain data carriers:  *)
(* a node is a record of its constructor's arguments.                      *)
(***************************************************************************)
Null == [kind |-> "null"]
Boolean(b) == [kind |-> "boolean", value |-> b]

\* The decimal digits of a natural number.
RECURSIVE NatToString(_)
NatToString(n) ==
  IF n < 10 THEN CharAt(Digits, n + 1)
  ELSE NatToString(n \div 10) \o CharAt(Digits, (n % 10) + 1)

Operands == {"number", "string", "variable", "constant"}

\* Whether a token slice without brackets is an infix expression: operands
\* separated by binary operators, each operand after any number of unary
\* minus signs.  A function name needs a call and a comma an argument
\* list, and both need brackets.
RECURSIVE WellFormedFrom(_, _, _)
WellFormedFrom(e, i, wantOperand) ==
  IF i > Len(e) THEN ~wantOperand
  ELSE LET t == e[i]
       IN IF wantOperand
          THEN \/ /\ t.type \in Operands
                  /\ WellFormedFrom(e, i + 1, FALSE)
               \/ /\ LexemeIs(t, "-")
                  /\ WellFormedFrom(e, i + 1, TRUE)
          ELSE /\ \/ t.type = "logic"
                  \/ /\ t.type = "operation"
                     /\ t.lexeme \in {"+", "-", "*", "/", "%", "=", "<", ">",
                                      "<>", ">=", "<="}
               /\ WellFormedFrom(e, i + 1, TRUE)

\* One token in the target syntax.
TokenToJS(t) ==
  CASE t.type = "number" ->
         NatToString(t.num) \o (IF t.frac = "" THEN "" ELSE "." \o t.frac)
    [] LexemeIs(t, "=") -> "=="
    [] LexemeIs(t, "<>") -> "!="
    [] LexemeIs(t, "AND") -> "&&"
    [] LexemeIs(t, "OR") -> "||"
    [] OTHER -> t.lexeme

RECURSIVE TokensToJS(_)
TokensToJS(e) ==
  IF e = << >> THEN "" ELSE TokenToJS(Head(e)) \o TokensToJS(Tail(e))

\* exprToJS: the translation of an isolated token slice, which fails on a
\* malformed one.
exprToJS(e) ==
  [kind |-> "expr", ok |-> WellFormedFrom(e, 1, TRUE), js |-> TokensToJS(e)]

(***************************************************************************)
(* Input lines                                                             *)
(***************************************************************************)
MaxWords == 2
MaxNest == 2

Words ==
  { "PRINT ", "LET ", "REM ", "IF ", "THEN ", "END ", "GOSUB ", "A", "b1$ ",
    "1", "\"s\" ", "=", "[", "]", "(", ";", "?", "<", ">" }

RECURSIVE Join(_)
Join(ws) == IF ws = << >> THEN "" ELSE Head(ws) \o Join(Tail(ws))

\* Lines of at most MaxWords words, with and without a line number.
WordLines ==
  { p \o Join(ws) : p \in {"10 ", ""},
                    ws \in UNION {[1..n -> Words] : n \in 0..MaxWords} }

Exprs == { "A", "A>5", "-1+B", "A[1]", "(A)", "ABS(1)" }

SimpleStatements ==
  { "END", "GOTO 100", "PRINT \"no\"", "PRINT A;", "LET A = 1", "LET A[2] = B",
    "NEXT I", "PAUSE 5", "INPUT \"n\"; N", "REM note ELSE END",
    "FOR I = 1 TO 10", "FOR I = 1 TO 10 STEP 2", "GOSUB 5", "A = 1" }

\* What may follow the statement of a THEN branch.
Tails == { "", " ELSE END", " ELSE PRINT \"no\"", " else GOTO 5",
           " PRINT PRINT 1", " ELSE" }

\* Statements with IF nested at most d deep.
RECURSIVE Statements(_)
Statements(d) ==
  IF d = 0 THEN SimpleStatements
  ELSE SimpleStatements \cup
       { "IF A>5 THEN " \o st \o tl : st \in Statements(d - 1), tl \in Tails }

StatementLines == { "10 " \o st : st \in Statements(MaxNest) }

OperandLines ==
  { "20 LET A = " \o e : e \in Exprs } \cup
  { "20 LET " \o e \o " = 1" : e \in Exprs } \cup
  { "20 IF " \o e \o " THEN END ELSE GOTO 5" : e \in Exprs } \cup
  { "20 FOR I = " \o e \o " TO " \o f \o tl :
      e \in Exprs, f \in {"10", "N)"},
      tl \in {"", " STEP 2", " STEP", " GOTO 2", " 2"} }

OtherLines ==
  { "10 LET A = F(B[1], C)", "10 LET A = ", "10 FOR I = 1 STEP 10",
    "10 IF A THEN END PRINT 1", "  7  rem  this is a comment",
    "10 REM", "10 REM this is a comment", "10 REMARK", "PRINT 1", "",
    "  PRINT 1", "\tA1", "10 PRINT REM IF x", "10 PRINT A<>B",
    "10 PRINT A>=1", "10 PRINT A <=  B", "10 IF A< >B THEN END",
    "10 TOTAL = 1", "10 LET ORDER = ANDY", "10 LET PIE = ABSENT + rnd1",
    "10 PRINTER; IFA", "10 LET N1 = 1E5", "10 LET X = .5",
    "10 REM a=1 ? PRINT \"x", "10 rem\tTabbed  ",
    "10 print \"hi\"", "10 IF A<>B THEN PRINT \"a\\\"b\" ; ELSE NEXT A[B]",
    "10 LET A[1 = 2", "10 LET A[1) = 2", "10 LET A[] = 2", "10 NEXT A[B[1]]",
    "10 NEXT A[1]]", "10 INPUT \"n\" N", "10 INPUT \"n\"; 5",
    "10 END 5", "10 PRINT 1 )", "10 GOTO 5 ; A", "10 PRINT PI * LEVEL AND x",
    "10 PRINT 1.", "007 GOTO 1.50", "10 PRINT \"abc", "10 PRINT 1 +",
    "10 IF A THEN", "10 IF A GOTO 5", "10 IF A THEN 5", "10 THEN", "10 DIM A[5]",
    "10 LET A$ = B1$", "10 LET A = B1", "10 PRINT a$;", "10 INPUT \"n\"; N$",
    "10 LET t$o = A$$", "10 PRINT $A" }

Lines == WordLines \cup StatementLines \cup OperandLines \cup OtherLines

(***************************************************************************)
(* State                                                                   *)
(***************************************************************************)
VARIABLES
  line,       \* the text given to parseLine (never changed)
  stmnt,      \* Tokenizer.stmnt: the input not yet consumed
  tokens,     \* Tokenizer.tokens
  index,      \* Tokenizer.index
  tokenized,  \* Tokenizer.tokenized
  lineno,     \* Tokenizer.lineno
  pc,         \* where parseLine is
  err,        \* the exception parseLine threw, NoError while it has not
  plineno,    \* Parser.lineno
  stack,      \* the calls of the parser still to make, the next one first
  vals,       \* the values the finished calls returned, the last one last
  expr,       \* expectExpr's expr
  brackets,   \* expectExpr's brackets
  node,       \* what parseLine returned
  ret         \* what the last call of peek() or next() by a client returned

vars ==
  << line, stmnt, tokens, index, tokenized, lineno, pc, err, plineno,
     stack, vals, expr, brackets, node, ret >>

tokenizerVars == << stmnt, tokens, index, tokenized, lineno >>
parserVars == << plineno, stack, vals, expr, brackets, node >>

Init ==
  /\ line \in Lines
  /\ stmnt = line
  /\ tokens = << >>
  /\ index = 0
  /\ tokenized = FALSE
  /\ lineno = -1
  /\ pc = "new"
  /\ err = NoError
  /\ plineno = -1
  /\ stack = << >>
  /\ vals = << >>
  /\ expr = << >>
  /\ brackets = 0
  /\ node = Null
  /\ ret = Undefined

\* throw e, out of parseLine
Throw(e) == pc' = "thrown" /\ err' = e

(***************************************************************************)
(* Tokenizer                                                               *)
(***************************************************************************)
\* A variant of Tokenize that takes 0 for a missing line number and goes on.
Tokenize_DefaultLineNo ==
  /\ pc = "new"
  /\ LET linem == LINE(stmnt)
     IN /\ lineno' = DigitsValue(linem.g)
        /\ tokens' = Append(tokens, NumberToken("lineno", lineno', ""))
        /\ stmnt' = Slice(stmnt, linem.len)
        /\ pc' = "tokenize"
        /\ UNCHANGED << index, tokenized, err >>
  /\ UNCHANGED << line, ret, parserVars >>

\* tokenize(), up to the scan loop
Tokenize ==
  /\ pc = "new"
  /\ LET linem == LINE(stmnt)
     IN IF linem.len = 0
        THEN /\ Throw(ParseError(lineno, "Every line must start with a line number"))
             /\ UNCHANGED tokenizerVars
        ELSE /\ lineno' = DigitsValue(linem.g)
             /\ tokens' = Append(tokens, NumberToken("lineno", lineno', ""))
             /\ stmnt' = Slice(stmnt, linem.len)
             /\ pc' = "tokenize"
             /\ UNCHANGED << index, tokenized, err >>
  /\ UNCHANGED << line, ret, parserVars >>

\* A variant of TokenizeScan that does not remove what was eaten from the
\* input.
TokenizeScan_NoSlice ==
  /\ pc = "tokenize"
  /\ Len(stmnt) > 0
  /\ LET e == Eat(stmnt)
     IN IF e.eaten = 0
        THEN /\ Throw(ParseError(lineno, "Invalid syntax near"))
             /\ UNCHANGED tokenizerVars
        ELSE /\ tokens' = tokens \o e.push
             /\ UNCHANGED << stmnt, index, tokenized, lineno, pc, err >>
  /\ UNCHANGED << line, ret, parserVars >>

\* one iteration of the scan loop
TokenizeScan ==
  /\ pc = "tokenize"
  /\ Len(stmnt) > 0
  /\ LET e == Eat(stmnt)
     IN IF e.eaten = 0
        THEN /\ Throw(ParseError(lineno, "Invalid syntax near"))
             /\ UNCHANGED tokenizerVars
        ELSE /\ tokens' = tokens \o e.push
             /\ stmnt' = Slice(stmnt, e.eaten)
             /\ UNCHANGED << index, tokenized, lineno, pc, err >>
  /\ UNCHANGED << line, ret, parserVars >>

\* the scan loop ends: tokenize() returns
TokenizeReturn ==
  /\ pc = "tokenize"
  /\ Len(stmnt) = 0
  /\ tokenized' = TRUE
  /\ pc' = "tokenized"
  /\ UNCHANGED << line, ret, stmnt, tokens, index, lineno, err, parserVars >>

\* peek(n) and next() once tokenized
\* with the cursor at i: what peek(n) returns, and where next() leaves it
peekFrom(i, n) == IF i + n >= Len(tokens) THEN eof ELSE tokens[i + n + 1]
nextFrom(i) == IF i >= Len(tokens) THEN i ELSE i + 1

peek(n) == peekFrom(index, n)
nextIndex == nextFrom(index)

(***************************************************************************)
(* tokenize() alone.  It is synchronous code: once called it keeps running *)
(* until it returns or throws, which is the fairness stated here.          *)
(***************************************************************************)
TokenizeNext ==
  \/ Tokenize
  \/ TokenizeScan
  \/ TokenizeReturn

\* Weak fairness of Tokenize and of TokenizeScan, with the enabling
\* condition of each - the guard of the action - written out: tokenize() is
\* called (tokenizeLine and parseLine call it right after the constructor),
\* and its loop goes round while there is input.
TokenizeCalled ==
  \/ []<>(pc # "new")
  \/ []<><<Tokenize>>_vars

ScanLoopRuns ==
  \/ []<>~(pc = "tokenize" /\ Len(stmnt) > 0)
  \/ []<><<TokenizeScan>>_vars

TokenizeSpec ==
  /\ Init
  /\ [][TokenizeNext]_vars
  /\ TokenizeCalled
  /\ ScanLoopRuns
  /\ WF_vars(TokenizeReturn)

(***************************************************************************)
(* A Tokenizer in the hands of a client that calls tokenize(), peek(n) and *)
(* next() as it likes.  A call that throws leaves the object as it is, and *)
(* the client may go on calling; pc tells how the last call ended.         *)
(***************************************************************************)
MaxPeek == 2

ClientLines == OtherLines \cup OperandLines

ClientInit == Init /\ line \in ClientLines

\* assertTokenized() returns (TRUE) or throws (FALSE).
assertTokenized == tokenized

\* No call is running.
Idle == pc \in {"new", "tokenized", "thrown"}

\* A variant of CallNext that moves the cursor on at the end of the tokens
\* as anywhere else.
CallNext_AlwaysAdvances ==
  /\ Idle
  /\ IF ~assertTokenized
     THEN /\ Throw(ParseError(lineno, "Call tokenize() first"))
          /\ ret' = Undefined
          /\ UNCHANGED index
     ELSE /\ ret' = peekFrom(index, 0)
          /\ index' = index + 1
          /\ pc' = "tokenized"
          /\ err' = NoError
  /\ UNCHANGED << line, stmnt, tokens, tokenized, lineno, parserVars >>

\* next()
CallNext ==
  /\ Idle
  /\ IF ~assertTokenized
     THEN /\ Throw(ParseError(lineno, "Call tokenize() first"))
          /\ ret' = Undefined
          /\ UNCHANGED index
     ELSE /\ ret' = (IF index >= Len(tokens) THEN eof ELSE tokens[index + 1])
          /\ index' = (IF index >= Len(tokens) THEN index ELSE index + 1)
          /\ pc' = "tokenized"
          /\ err' = NoError
  /\ UNCHANGED << line, stmnt, tokens, tokenized, lineno, parserVars >>

\* A variant of CallPeek without the call of assertTokenized().
CallPeek_Unasserted(n) ==
  /\ Idle
  /\ ret' = (IF index + n >= Len(tokens) THEN eof ELSE tokens[index + n + 1])
  /\ pc' = "tokenized"
  /\ err' = NoError
  /\ UNCHANGED << line, stmnt, tokens, index, tokenized, lineno, parserVars >>

\* peek(n)
CallPeek(n) ==
  /\ Idle
  /\ IF ~assertTokenized
     THEN /\ Throw(ParseError(lineno, "Call tokenize() first"))
          /\ ret' = Undefined
     ELSE /\ ret' = (IF index + n >= Len(tokens) THEN eof
                     ELSE tokens[index + n + 1])
          /\ pc' = "tokenized"
          /\ err' = NoError
  /\ UNCHANGED << line, stmnt, tokens, index, tokenized, lineno, parserVars >>

\* tokenize() called after another call, of it or of peek() / next(),
\* returned or threw
TokenizeAgain ==
  /\ pc \in {"tokenized", "thrown"}
  /\ LET linem == LINE(stmnt)
     IN IF linem.len = 0
        THEN /\ Throw(ParseError(lineno, "Every line must start with a line number"))
             /\ UNCHANGED tokenizerVars
        ELSE /\ lineno' = DigitsValue(linem.g)
             /\ tokens' = Append(tokens, NumberToken("lineno", lineno', ""))
             /\ stmnt' = Slice(stmnt, linem.len)
             /\ pc' = "tokenize"
             /\ UNCHANGED << index, tokenized, err >>
  /\ UNCHANGED << line, ret, parserVars >>

ClientNext ==
  \/ Tokenize
  \/ TokenizeScan
  \/ TokenizeReturn
  \/ TokenizeAgain
  \/ CallNext
  \/ \E n \in 0..MaxPeek : CallPeek(n)

ClientSpec == ClientInit /\ [][ClientNext]_vars

(***************************************************************************)
(* Parser.  The parser's calls are sequenced by `stack`: a frame names the *)
(* method to call next (op) and its argument (arg); a method that returns  *)
(* a value appends it to `vals`.                                           *)
(***************************************************************************)
Frame(op, arg) == [op |-> op, arg |-> arg]

\* The default `value = null` of assertType.
NoValue == "<null>"

\* assertType(token, expected, value) returns (TRUE) or throws (FALSE).
assertType(token, expected, value) ==
  /\ token.type = expected
  /\ value # NoValue => LexemeIs(token, value)

\* getLineNo(token) returns (TRUE) or throws (FALSE): a lineno token's
\* lexeme is always a Number.
getLineNo(token) == assertType(token, "lineno", NoValue)

\* The methods parse() calls, in order, for each leading keyword.
Productions ==
  [k \in {"PRINT", "LET", "REM", "PAUSE", "INPUT", "FOR", "NEXT", "GOTO",
          "END", "IF"} |->
    CASE k = "PRINT" ->
           << Frame("expectExpr", ""), Frame("acceptLineMod", ""),
              Frame("new", "PRINT") >>
      [] k = "LET" ->
           << Frame("expectVariable", ""), Frame("expectOperation", "="),
              Frame("expectExpr", ""), Frame("new", "LET") >>
      [] k = "REM" -> << Frame("expectComment", ""), Frame("new", "REM") >>
      [] k = "PAUSE" -> << Frame("expectExpr", ""), Frame("new", "PAUSE") >>
      [] k = "INPUT" ->
           << Frame("expectExpr", ""), Frame("expectLineMod", ""),
              Frame("expectVariable", ""), Frame("new", "INPUT") >>
      [] k = "FOR" ->
           << Frame("expectVariable", ""), Frame("expectOperation", "="),
              Frame("expectExpr", ""), Frame("expectKeyword", "TO"),
              Frame("expectExpr", ""), Frame("step", ""),
              Frame("new", "FOR") >>
      [] k = "NEXT" -> << Frame("expectVariable", ""), Frame("new", "NEXT") >>
      [] k = "GOTO" -> << Frame("expectExpr", ""), Frame("new", "GOTO") >>
      [] k = "END" -> << Frame("new", "END") >>
      [] k = "IF" ->
           << Frame("expectExpr", ""), Frame("expectKeyword", "THEN"),
              Frame("parse", ""), Frame("other", ""), Frame("new", "IF") >> ]

\* The parser is about to call `op`.
At(op) == pc = "parse" /\ stack # << >> /\ Head(stack).op = op

\* A variant of ParseLine whose Parser is not given the line number.
ParseLine_NoLineNo ==
  /\ pc = "tokenized"
  /\ index' = nextIndex
  /\ IF getLineNo(peek(0))
     THEN /\ stack' = << Frame("parse", "") >>
          /\ pc' = "parse"
          /\ UNCHANGED << err, plineno >>
     ELSE /\ Throw(Error("Expect token of type lineno"))
          /\ UNCHANGED << plineno, stack >>
  /\ UNCHANGED << line, ret, stmnt, tokens, tokenized, lineno, vals, expr,
                  brackets, node >>

\* parseLine(), after tokenize(): the line number, and the Parser
ParseLine ==
  /\ pc = "tokenized"
  /\ index' = nextIndex
  /\ IF getLineNo(peek(0))
     THEN /\ plineno' = peek(0).num
          /\ stack' = << Frame("parse", "") >>
          /\ pc' = "parse"
          /\ UNCHANGED err
     ELSE /\ Throw(Error("Expect token of type lineno"))
          /\ UNCHANGED << plineno, stack >>
  /\ UNCHANGED << line, ret, stmnt, tokens, tokenized, lineno, vals, expr,
                  brackets, node >>

\* A variant of Parse whose switch falls back to the END case.
Parse_DefaultCase ==
  /\ At("parse")
  /\ index' = nextIndex
  /\ LET top == peek(0)
     IN IF ~assertType(top, "keyword", NoValue)
        THEN /\ Throw(Error("Expect token of type keyword"))
             /\ UNCHANGED stack
        ELSE /\ stack' = (IF top.lexeme \in DOMAIN Productions
                          THEN Productions[top.lexeme]
                          ELSE Productions["END"]) \o Tail(stack)
             /\ UNCHANGED << pc, err >>
  /\ UNCHANGED << line, ret, stmnt, tokens, tokenized, lineno, plineno, vals,
                  expr, brackets, node >>

\* parse(): the leading keyword and the dispatch on it
Parse ==
  /\ At("parse")
  /\ index' = nextIndex
  /\ LET top == peek(0)
     IN IF ~assertType(top, "keyword", NoValue)
        THEN /\ Throw(Error("Expect token of type keyword"))
             /\ UNCHANGED stack
        ELSE IF top.lexeme \in DOMAIN Productions
        THEN /\ stack' = Productions[top.lexeme] \o Tail(stack)
             /\ UNCHANGED << pc, err >>
        ELSE /\ Throw(Error("Unexpected token"))
             /\ UNCHANGED stack
  /\ UNCHANGED << line, ret, stmnt, tokens, tokenized, lineno, plineno, vals,
                  expr, brackets, node >>

\* acceptKeyword(keyword): whether it takes the next token.
acceptKeyword(keyword) == peek(0).type = "keyword"

\* expectKeyword(keyword)
ExpectKeyword ==
  /\ At("expectKeyword")
  /\ IF acceptKeyword(Head(stack).arg)
     THEN /\ index' = nextIndex
          /\ stack' = Tail(stack)
          /\ UNCHANGED << pc, err >>
     ELSE /\ Throw(Error("Expected keyword"))
          /\ UNCHANGED << index, stack >>
  /\ UNCHANGED << line, ret, stmnt, tokens, tokenized, lineno, plineno, vals,
                  expr, brackets, node >>

\* A variant of Step that never looks for STEP: the step is always null.
Step_Never ==
  /\ At("step")
  /\ vals' = Append(vals, Null)
  /\ stack' = Tail(stack)
  /\ UNCHANGED << line, ret, stmnt, tokens, index, tokenized, lineno, pc, err,
                  plineno, expr, brackets, node >>

\* FOR: const step = this.acceptKeyword('STEP') ? this.expectExpr() : null
Step ==
  /\ At("step")
  /\ IF acceptKeyword("STEP")
     THEN /\ index' = nextIndex
          /\ stack' = << Frame("expectExpr", "") >> \o Tail(stack)
          /\ UNCHANGED vals
     ELSE /\ vals' = Append(vals, Null)
          /\ stack' = Tail(stack)
          /\ UNCHANGED index
  /\ UNCHANGED << line, ret, stmnt, tokens, tokenized, lineno, pc, err, plineno,
                  expr, brackets, node >>

\* IF: let other = null; if (this.acceptKeyword('else')) other = this.parse()
Other ==
  /\ At("other")
  /\ IF acceptKeyword("else")
     THEN /\ index' = nextIndex
          /\ stack' = << Frame("parse", "") >> \o Tail(stack)
          /\ UNCHANGED vals
     ELSE /\ vals' = Append(vals, Null)
          /\ stack' = Tail(stack)
          /\ UNCHANGED index
  /\ UNCHANGED << line, ret, stmnt, tokens, tokenized, lineno, pc, err, plineno,
                  expr, brackets, node >>

\* expectComment()
ExpectComment ==
  /\ At("expectComment")
  /\ LET t == peek(0)
         \* the token a second next() returns
         after == peekFrom(nextIndex, 0)
     IN IF t.type = "comment"
        THEN /\ index' = nextFrom(nextIndex)
             /\ IF assertType(after, "eof", NoValue)
                THEN /\ vals' = Append(vals, [kind |-> "string", value |-> t.lexeme])
                     /\ stack' = Tail(stack)
                     /\ UNCHANGED << pc, err >>
                ELSE /\ Throw(Error("Expect token of type eof"))
                     /\ UNCHANGED << vals, stack >>
        ELSE /\ index' = nextIndex
             /\ IF assertType(t, "eof", NoValue)
                THEN /\ vals' = Append(vals, [kind |-> "string", value |-> ""])
                     /\ stack' = Tail(stack)
                     /\ UNCHANGED << pc, err >>
                ELSE /\ Throw(Error("Expect token of type eof"))
                     /\ UNCHANGED << vals, stack >>
  /\ UNCHANGED << line, ret, stmnt, tokens, tokenized, lineno, plineno, expr,
                  brackets, node >>

\* expectOperation(op)
ExpectOperation ==
  /\ At("expectOperation")
  /\ index' = nextIndex
  /\ LET t == peek(0)
     IN IF ~assertType(t, "operation", NoValue)
        THEN /\ Throw(Error("Expect token of type operation"))
             /\ UNCHANGED stack
        ELSE IF t.lexeme # Head(stack).arg
        THEN /\ Throw(Error("Expected operation"))
             /\ UNCHANGED stack
        ELSE /\ stack' = Tail(stack)
             /\ UNCHANGED << pc, err >>
  /\ UNCHANGED << line, ret, stmnt, tokens, tokenized, lineno, plineno, vals,
                  expr, brackets, node >>

Variable(n, name, subscript) ==
  [kind |-> "Variable", lineno |-> n, name |-> name, subscript |-> subscript]

\* expectVariable(), up to its call of acceptSubscript()
ExpectVariable ==
  /\ At("expectVariable")
  /\ index' = nextIndex
  /\ LET t == peek(0)
     IN IF assertType(t, "variable", NoValue)
        THEN /\ stack' = << Frame("acceptSubscript", t.lexeme) >> \o Tail(stack)
             /\ UNCHANGED << pc, err >>
        ELSE /\ Throw(Error("Expect token of type variable"))
             /\ UNCHANGED stack
  /\ UNCHANGED << line, ret, stmnt, tokens, tokenized, lineno, plineno, vals,
                  expr, brackets, node >>

\* acceptSubscript(), up to its call of expectExpr(); without a subscript
\* it returns null and expectVariable() returns the Variable
AcceptSubscript ==
  /\ At("acceptSubscript")
  /\ LET t == peek(0)
     IN IF ~LexemeIs(t, "[")
        THEN /\ vals' = Append(vals, Variable(plineno, Head(stack).arg, Null))
             /\ stack' = Tail(stack)
             /\ UNCHANGED << index, pc, err >>
        ELSE /\ index' = nextIndex
             /\ UNCHANGED vals
             /\ IF assertType(t, "operation", "[")
                THEN /\ stack' = << Frame("expectExpr", ""),
                                    Frame("acceptSubscript.close", Head(stack).arg) >>
                                 \o Tail(stack)
                     /\ UNCHANGED << pc, err >>
                ELSE /\ Throw(Error("Expect token of type operation"))
                     /\ UNCHANGED stack
  /\ UNCHANGED << line, ret, stmnt, tokens, tokenized, lineno, plineno, expr,
                  brackets, node >>

\* A variant of AcceptSubscriptClose that takes whatever token follows the
\* subscript expression for the closing bracket.
AcceptSubscriptClose_AnyToken ==
  /\ At("acceptSubscript.close")
  /\ index' = nextIndex
  /\ vals' = SubSeq(vals, 1, Len(vals) - 1)
               \o << Variable(plineno, Head(stack).arg, vals[Len(vals)]) >>
  /\ stack' = Tail(stack)
  /\ UNCHANGED << line, ret, stmnt, tokens, tokenized, lineno, pc, err, plineno,
                  expr, brackets, node >>

\* acceptSubscript(), after expectExpr(): the closing bracket; it returns
\* the expression and expectVariable() returns the Variable
AcceptSubscriptClose ==
  /\ At("acceptSubscript.close")
  /\ index' = nextIndex
  /\ IF assertType(peek(0), "operation", "]")
     THEN /\ vals' = SubSeq(vals, 1, Len(vals) - 1)
                       \o << Variable(plineno, Head(stack).arg, vals[Len(vals)]) >>
          /\ stack' = Tail(stack)
          /\ UNCHANGED << pc, err >>
     ELSE /\ Throw(Error("Expected token value to be ]"))
          /\ UNCHANGED << vals, stack >>
  /\ UNCHANGED << line, ret, stmnt, tokens, tokenized, lineno, plineno, expr,
                  brackets, node >>

\* expectLineMod()
ExpectLineMod ==
  /\ At("expectLineMod")
  /\ IF peek(0).type = "linemod"
     THEN /\ index' = nextIndex
          /\ stack' = Tail(stack)
          /\ UNCHANGED << pc, err >>
     ELSE /\ Throw(Error("Expected ;"))
          /\ UNCHANGED << index, stack >>
  /\ UNCHANGED << line, ret, stmnt, tokens, tokenized, lineno, plineno, vals,
                  expr, brackets, node >>

\* acceptLineMod()
AcceptLineMod ==
  /\ At("acceptLineMod")
  /\ IF peek(0).type = "linemod"
     THEN /\ index' = nextIndex
          /\ vals' = Append(vals, Boolean(TRUE))
     ELSE /\ vals' = Append(vals, Boolean(FALSE))
          /\ UNCHANGED index
  /\ stack' = Tail(stack)
  /\ UNCHANGED << line, ret, stmnt, tokens, tokenized, lineno, pc, err, plineno,
                  expr, brackets, node >>

\* expectExpr(): const expr = [], brackets = 0
ExpectExpr ==
  /\ At("expectExpr")
  /\ expr' = << >>
  /\ brackets' = 0
  /\ stack' = << Frame("expectExpr.while", "") >> \o Tail(stack)
  /\ UNCHANGED << line, ret, tokenizerVars, pc, err, plineno, vals, node >>

\* The scan loop of expectExpr() goes on to consume the next token: it is
\* not end of input, it is of an expression type, and it is not a closer
\* met at depth zero.
Scanning ==
  LET t == peek(0)
  IN /\ t # eof
     /\ t.type \in expressionTypes
     /\ ~(brackets = 0 /\ (LexemeIs(t, "]") \/ LexemeIs(t, ")")))

\* The token is one at which the scan assigns to `brackets`.  `brackets`
\* is declared const: the assignment throws a TypeError.
IsOpener(t) == LexemeIs(t, "[") \/ LexemeIs(t, "(")
IsDecrement(t) == LexemeIs(t, "]") \/ LexemeIs(t, "]")

\* one iteration of the scan loop that consumes a token
ExpectExprScan ==
  /\ At("expectExpr.while")
  /\ Scanning
  /\ index' = nextIndex
  /\ LET t == peek(0)
     IN IF IsOpener(t) \/ IsDecrement(t)
        THEN /\ Throw(TypeError("Assignment to constant variable."))
             /\ UNCHANGED expr
        ELSE /\ expr' = Append(expr, t)
             /\ UNCHANGED << pc, err >>
  /\ UNCHANGED << line, ret, stmnt, tokens, tokenized, lineno, plineno, stack,
                  vals, brackets, node >>

\* A variant of ExpectExprReturn without the check of expr.length: an empty
\* scan returns the translation of no tokens.
ExpectExprReturn_EmptyAllowed ==
  /\ At("expectExpr.while")
  /\ ~Scanning
  /\ IF Len(expr) > 0 /\ ~exprToJS(expr).ok
     THEN /\ Throw(Error("Invalid expression"))
          /\ UNCHANGED << stack, vals >>
     ELSE /\ vals' = Append(vals, exprToJS(expr))
          /\ stack' = Tail(stack)
          /\ UNCHANGED << pc, err >>
  /\ UNCHANGED << line, ret, tokenizerVars, plineno, expr, brackets, node >>

\* the scan loop ends: expectExpr() throws on an empty expression, and
\* returns the translation of the tokens it consumed otherwise
ExpectExprReturn ==
  /\ At("expectExpr.while")
  /\ ~Scanning
  /\ IF Len(expr) = 0
     THEN /\ Throw(Error("Expected expression"))
          /\ UNCHANGED << stack, vals >>
     ELSE IF ~exprToJS(expr).ok
     THEN /\ Throw(Error("Invalid expression"))
          /\ UNCHANGED << stack, vals >>
     ELSE /\ vals' = Append(vals, exprToJS(expr))
          /\ stack' = Tail(stack)
          /\ UNCHANGED << pc, err >>
  /\ UNCHANGED << line, ret, tokenizerVars, plineno, expr, brackets, node >>

\* new C(this.lineno, ...) on the values v of its other arguments
Construct(C, n, v) ==
  CASE C = "PRINT" ->
         [kind |-> C, lineno |-> n, expr |-> v[1], linemod |-> v[2].value]
    [] C = "LET" -> [kind |-> C, lineno |-> n, variable |-> v[1], expr |-> v[2]]
    [] C = "REM" -> [kind |-> C, lineno |-> n, text |-> v[1].value]
    [] C = "PAUSE" -> [kind |-> C, lineno |-> n, expr |-> v[1]]
    [] C = "INPUT" -> [kind |-> C, lineno |-> n, expr |-> v[1], variable |-> v[2]]
    [] C = "FOR" ->
         [kind |-> C, lineno |-> n, variable |-> v[1], frm |-> v[2],
          to |-> v[3], step |-> v[4]]
    [] C = "NEXT" -> [kind |-> C, lineno |-> n, variable |-> v[1]]
    [] C = "GOTO" -> [kind |-> C, lineno |-> n, expr |-> v[1]]
    [] C = "END" -> [kind |-> C, lineno |-> n]
    [] C = "IF" ->
         [kind |-> C, lineno |-> n, cond |-> v[1], then |-> v[2], other |-> v[3]]

\* The number of arguments of each node class after the line number.
Arity ==
  [C \in {"PRINT", "LET", "REM", "PAUSE", "INPUT", "FOR", "NEXT", "GOTO",
          "END", "IF"} |->
    CASE C \in {"END"} -> 0
      [] C \in {"REM", "PAUSE", "NEXT", "GOTO"} -> 1
      [] C \in {"PRINT", "LET", "INPUT"} -> 2
      [] C = "IF" -> 3
      [] C = "FOR" -> 4]

\* return new C(this.lineno, ...), the last step of parse()
New ==
  /\ At("new")
  /\ LET C == Head(stack).arg
         k == Len(vals) - Arity[C]
     IN vals' = SubSeq(vals, 1, k)
                  \o << Construct(C, plineno, SubSeq(vals, k + 1, Len(vals))) >>
  /\ stack' = Tail(stack)
  /\ UNCHANGED << line, ret, tokenizerVars, pc, err, plineno, expr, brackets, node >>

\* return p.parse(), the last step of parseLine()
Return ==
  /\ pc = "parse"
  /\ stack = << >>
  /\ node' = vals[Len(vals)]
  /\ pc' = "returned"
  /\ UNCHANGED << line, ret, tokenizerVars, err, plineno, stack, vals, expr,
                  brackets >>

Next ==
  \/ Tokenize
  \/ TokenizeScan
  \/ TokenizeReturn
  \/ ParseLine
  \/ Parse
  \/ ExpectKeyword
  \/ Step
  \/ Other
  \/ ExpectComment
  \/ ExpectOperation
  \/ ExpectVariable
  \/ AcceptSubscript
  \/ AcceptSubscriptClose
  \/ ExpectLineMod
  \/ AcceptLineMod
  \/ ExpectExpr
  \/ ExpectExprScan
  \/ ExpectExprReturn
  \/ New
  \/ Return

Spec == Init /\ [][Next]_vars

(***************************************************************************)
(* The statement grammar of the specification, read off the token          *)
(* sequence of a tokenized line.  It is what the properties below compare  *)
(* the parser with; the parser above does not use it.                      *)
(*                                                                         *)
(* An operand is valid when it is a non-empty run of expression tokens up  *)
(* to end of input, a token of another kind or a closer at depth zero,     *)
(* that translates.  A run that holds a bracket does not translate here:   *)
(* exprToJS above is given on the slices the parser can hand it, and       *)
(* those hold none.                                                        *)
(***************************************************************************)
TokAt(i) == IF i >= 1 /\ i <= Len(tokens) THEN tokens[i] ELSE eof
IsKeyword(t, k) == t.type = "keyword" /\ t.lexeme = k
IsCloser(t) == LexemeIs(t, "]") \/ LexemeIs(t, ")")

\* The position after the expression that starts at position i, the scan
\* being at depth d.
RECURSIVE RefExprEnd(_, _)
RefExprEnd(i, d) ==
  LET t == TokAt(i)
  IN IF i > Len(tokens) \/ t.type \notin expressionTypes THEN i
     ELSE IF IsCloser(t) THEN (IF d = 0 THEN i ELSE RefExprEnd(i + 1, d - 1))
     ELSE IF IsOpener(t) THEN RefExprEnd(i + 1, d + 1)
     ELSE RefExprEnd(i + 1, d)

RefFail == [ok |-> FALSE, value |-> Null, next |-> 0]

RefExpr(i) ==
  LET e == RefExprEnd(i, 0)
      slice == SubSeq(tokens, i, e - 1)
  IN IF e > i /\ exprToJS(slice).ok
     THEN [ok |-> TRUE, value |-> exprToJS(slice), next |-> e]
     ELSE RefFail

\* variable, optionally `[` expression `]`
RefVariable(i) ==
  IF TokAt(i).type # "variable" THEN RefFail
  ELSE IF ~LexemeIs(TokAt(i + 1), "[")
  THEN [ok |-> TRUE, value |-> Variable(tokens[1].num, TokAt(i).lexeme, Null),
        next |-> i + 1]
  ELSE LET e == RefExpr(i + 2)
       IN IF e.ok /\ TokAt(e.next).type = "operation" /\ LexemeIs(TokAt(e.next), "]")
          THEN [ok |-> TRUE,
                value |-> Variable(tokens[1].num, TokAt(i).lexeme, e.value),
                next |-> e.next + 1]
          ELSE RefFail

IsEquals(t) == t.type = "operation" /\ t.lexeme = "="

\* The statement that starts at position i: the table of productions.
RECURSIVE RefStatement(_)
RefStatement(i) ==
  LET n == tokens[1].num
      k == TokAt(i)
      e == RefExpr(i + 1)
      v == RefVariable(i + 1)
  IN IF k.type # "keyword" THEN RefFail
     ELSE CASE k.lexeme = "PRINT" ->
            IF ~e.ok THEN RefFail
            ELSE LET m == TokAt(e.next).type = "linemod"
                 IN [ok |-> TRUE,
                     value |-> [kind |-> "PRINT", lineno |-> n, expr |-> e.value,
                                linemod |-> m],
                     next |-> IF m THEN e.next + 1 ELSE e.next]
       [] k.lexeme = "LET" ->
            LET x == RefExpr(v.next + 1)
            IN IF v.ok /\ IsEquals(TokAt(v.next)) /\ x.ok
               THEN [ok |-> TRUE,
                     value |-> [kind |-> "LET", lineno |-> n,
                                variable |-> v.value, expr |-> x.value],
                     next |-> x.next]
               ELSE RefFail
       [] k.lexeme = "REM" ->
            IF TokAt(i + 1).type = "comment"
            THEN [ok |-> TRUE,
                  value |-> [kind |-> "REM", lineno |-> n,
                             text |-> TokAt(i + 1).lexeme],
                  next |-> i + 2]
            ELSE [ok |-> TRUE, value |-> [kind |-> "REM", lineno |-> n, text |-> ""],
                  next |-> i + 1]
       [] k.lexeme \in {"PAUSE", "GOTO"} ->
            IF e.ok
            THEN [ok |-> TRUE,
                  value |-> [kind |-> k.lexeme, lineno |-> n, expr |-> e.value],
                  next |-> e.next]
            ELSE RefFail
       [] k.lexeme = "INPUT" ->
            LET w == RefVariable(e.next + 1)
            IN IF e.ok /\ TokAt(e.next).type = "linemod" /\ w.ok
               THEN [ok |-> TRUE,
                     value |-> [kind |-> "INPUT", lineno |-> n, expr |-> e.value,
                                variable |-> w.value],
                     next |-> w.next]
               ELSE RefFail
       [] k.lexeme = "FOR" ->
            LET f == RefExpr(v.next + 1)
                t == RefExpr(f.next + 1)
                s == RefExpr(t.next + 1)
            IN IF v.ok /\ IsEquals(TokAt(v.next)) /\ f.ok
                  /\ IsKeyword(TokAt(f.next), "TO") /\ t.ok
               THEN IF IsKeyword(TokAt(t.next), "STEP")
                    THEN IF s.ok
                         THEN [ok |-> TRUE,
                               value |-> [kind |-> "FOR", lineno |-> n,
                                          variable |-> v.value, frm |-> f.value,
                                          to |-> t.value, step |-> s.value],
                               next |-> s.next]
                         ELSE RefFail
                    ELSE [ok |-> TRUE,
                          value |-> [kind |-> "FOR", lineno |-> n,
                                     variable |-> v.value, frm |-> f.value,
                                     to |-> t.value, step |-> Null],
                          next |-> t.next]
               ELSE RefFail
       [] k.lexeme = "NEXT" ->
            IF v.ok
            THEN [ok |-> TRUE,
                  value |-> [kind |-> "NEXT", lineno |-> n, variable |-> v.value],
                  next |-> v.next]
            ELSE RefFail
       [] k.lexeme = "END" ->
            [ok |-> TRUE, value |-> [kind |-> "END", lineno |-> n], next |-> i + 1]
       [] k.lexeme = "IF" ->
            IF e.ok /\ IsKeyword(TokAt(e.next), "THEN")
            THEN LET a == RefStatement(e.next + 1)
                     b == RefStatement(a.next + 1)
                 IN IF ~a.ok THEN RefFail
                    ELSE IF ~IsKeyword(TokAt(a.next), "ELSE")
                    THEN [ok |-> TRUE,
                          value |-> [kind |-> "IF", lineno |-> n, cond |-> e.value,
                                     then |-> a.value, other |-> Null],
                          next |-> a.next]
                    ELSE IF b.ok
                    THEN [ok |-> TRUE,
                          value |-> [kind |-> "IF", lineno |-> n, cond |-> e.value,
                                     then |-> a.value, other |-> b.value],
                          next |-> b.next]
                    ELSE RefFail
            ELSE RefFail
       [] OTHER -> RefFail

\* The line is one statement of the grammar, and nothing after it.
RefLine ==
  LET r == IF tokenized THEN RefStatement(2) ELSE RefFail
  IN IF r.ok /\ r.next = Len(tokens) + 1 THEN r ELSE RefFail

(***************************************************************************)
(* Properties                                                              *)
(***************************************************************************)
\* An expression scan is running, or has just thrown.
InScan ==
  /\ pc \in {"parse", "thrown"}
  /\ stack # << >>
  /\ Head(stack).op = "expectExpr.while"

\* The tokens that scan has consumed: those it pushed on expr and, when an
\* assignment to `brackets` threw, the token consumed just before it.
ScanConsumed ==
  LET n == Len(expr) + (IF pc = "thrown" /\ err.name = "TypeError" THEN 1 ELSE 0)
  IN SubSeq(tokens, index - n + 1, index)

\* Openers minus closers in a token sequence.
Depth(ts) ==
  Cardinality({i \in 1..Len(ts) : IsOpener(ts[i])})
    - Cardinality({i \in 1..Len(ts) : IsCloser(ts[i])})

\* C1: in expectExpr the depth `brackets` is, after any prefix of consumed
\* tokens, the number of '(' and '[' consumed minus the number of ')' and
\* ']' consumed; so the scan of `LET A = F(B[1], C)` runs to the end of the
\* line and the parse does not fail.
C1_BracketDepthTracked ==
  /\ InScan => brackets = Depth(ScanConsumed)
  /\ line = "10 LET A = F(B[1], C)" => pc # "thrown"

\* C2: at a grammar position that names a keyword, only a keyword token
\* with exactly that lexeme is consumed: expectKeyword(k) fails on another
\* keyword, acceptKeyword(k) leaves the cursor where it is on another
\* keyword; `FOR I = 1 STEP 10` yields no FOR node.
C2_KeywordLexemeRequired ==
  /\ [][ /\ ( /\ At("expectKeyword")
              /\ peek(0).type = "keyword"
              /\ peek(0).lexeme # Head(stack).arg ) => pc' = "thrown"
         /\ (At("step") /\ peek(0).type = "keyword" /\ peek(0).lexeme # "STEP")
              => (index' = index /\ vals' = Append(vals, Null))
         /\ (At("other") /\ peek(0).type = "keyword" /\ peek(0).lexeme # "ELSE")
              => (index' = index /\ vals' = Append(vals, Null)) ]_vars
  /\ [](line = "10 FOR I = 1 STEP 10" => pc # "returned")

\* C3: a line `N IF <cond> THEN <stmt1> ELSE <stmt2>` of the grammar parses
\* to an IF node with then = the node of <stmt1> and else = the node of
\* <stmt2>; `N IF <cond> THEN <stmt1>` parses with else = null.
C3_IfThenElse ==
  (RefLine.ok /\ RefLine.value.kind = "IF") =>
    /\ pc # "thrown"
    /\ pc = "returned" =>
         /\ node.kind = "IF"
         /\ node.then = RefLine.value.then
         /\ node.other = RefLine.value.other

\* A failure ends parseLine, and nothing was returned.
FailureIsFinal ==
  /\ [](pc = "thrown" => node = Null)
  /\ [][pc = "thrown" => pc' = "thrown"]_vars

\* The token after the cursor cannot start an expression: it is end of
\* input, a token of a non-expression kind, or a closer.
NoOperandAhead ==
  \/ index >= Len(tokens)
  \/ TokAt(index + 1).type \notin expressionTypes
  \/ IsCloser(TokAt(index + 1))

\* An operand of a statement node: a translated expression of at least one
\* token.
IsOperand(v) == v # Null /\ v.kind = "expr" /\ v.js # ""

\* C4: whenever expectExpr is entered and the next token is end of input, a
\* token of a non-expression kind, or a closer ')' / ']' at depth zero, it
\* fails with 'Expected expression' without consuming a token, and no node
\* is returned; `10 LET A = ` fails and never yields a LET node.
C4_EmptyExpressionFails ==
  /\ [][ /\ (At("expectExpr") /\ NoOperandAhead)
              => /\ At("expectExpr.while")'
                 /\ expr' = << >>
                 /\ brackets' = 0
                 /\ index' = index
         /\ (At("expectExpr.while") /\ expr = << >> /\ NoOperandAhead)
              => /\ pc' = "thrown"
                 /\ err'.message = "Expected expression"
                 /\ index' = index
                 /\ node' = Null ]_vars
  /\ FailureIsFinal
  /\ [](line = "10 LET A = " => pc # "returned" /\ node = Null)
  /\ []((pc = "returned" /\ node.kind = "LET") => IsOperand(node.expr))

C4_Witness ==
  /\ line = "10 LET A = "
  /\ pc = "thrown"
  /\ err.message = "Expected expression"
  /\ index = Len(tokens)
  /\ expr = << >>

\* The line begins, after optional whitespace, with a decimal digit.
RECURSIVE DropSpaces(_)
DropSpaces(s) ==
  IF s # "" /\ Head(s) \in {" ", "\t"} THEN DropSpaces(Tail(s)) ELSE s

BeginsWithDigits(s) ==
  DropSpaces(s) # "" /\ Head(DropSpaces(s)) \in Chars("0123456789")

\* C5: for a line that does not begin (after optional whitespace) with a
\* decimal digit sequence, tokenize raises its error at once: no token is
\* ever pushed, `tokenized` stays false, and no line number is defaulted
\* into the tokenizer, a token or a node.
C5_NoLineNumberFails ==
  /\ [](~BeginsWithDigits(line) =>
          /\ pc \in {"new", "thrown"}
          /\ tokens = << >>
          /\ ~tokenized
          /\ lineno = -1
          /\ plineno = -1
          /\ node = Null
          /\ pc = "thrown" =>
               (err.name = "ParseError"
                  /\ err.message = "Every line must start with a line number"))
  /\ [][(pc = "new" /\ ~BeginsWithDigits(line)) => pc' = "thrown"]_vars

C5_Witness ==
  /\ line = "  PRINT 1"
  /\ pc = "thrown"
  /\ err.name = "ParseError"
  /\ tokens = << >>
  /\ ~tokenized

\* C6: every failure raised while lexing or parsing a line that has a
\* leading line-number token carries that token's value as its line
\* number, and no failure carries a node.
C6_FailuresCarryLineNumber ==
  (pc = "thrown" /\ tokens # << >>) =>
    /\ err.hasLineno
    /\ err.lineno = tokens[1].num
    /\ node = Null

\* The remaining input starts with REM, in any case.
RemAt(s) == Len(s) >= 3 /\ toUpperCase(SubSeq(s, 1, 3)) = "REM"

\* What follows REM and the whitespace after it.
AfterRem(s) == DropSpaces(SubSeq(s, 4, Len(s)))

\* The line without its line number and the whitespace around it.
RECURSIVE DropDigits(_)
DropDigits(s) ==
  IF s # "" /\ Head(s) \in Chars("0123456789") THEN DropDigits(Tail(s)) ELSE s

Body(s) == DropSpaces(DropDigits(DropSpaces(s)))

\* C7: when the scan is at REM, the lexer emits the keyword token REM and
\* one comment token whose lexeme is the whole rest of the line after REM
\* and the whitespace following it, and the line is exhausted: a comment
\* token is always the last token and always follows the keyword REM.
\* `N REM <text>` parses to a REM node whose text is <text>, "" when
\* nothing follows REM.
C7_RemTakesRestOfLine ==
  /\ [][(pc = "tokenize" /\ RemAt(stmnt))
          => /\ tokens' = tokens \o << Token("keyword", "REM"),
                                       Token("comment", AfterRem(stmnt)) >>
             /\ stmnt' = ""
             /\ pc' = "tokenize"]_vars
  /\ [](\A i \in 1..Len(tokens) :
          /\ tokens[i].type = "comment"
               => i = Len(tokens) /\ i > 1 /\ IsKeyword(tokens[i - 1], "REM")
          /\ IsKeyword(tokens[i], "REM")
               => i + 1 = Len(tokens) /\ tokens[i + 1].type = "comment")
  /\ []((BeginsWithDigits(line) /\ RemAt(Body(line))) =>
          /\ pc # "thrown"
          /\ pc = "returned" =>
               node = [kind |-> "REM", lineno |-> tokens[1].num,
                       text |-> AfterRem(Body(line))])
  /\ []((line = "10 REM this is a comment" /\ pc = "returned")
          => node.text = "this is a comment")
  /\ []((line = "10 REM" /\ pc = "returned") => node.text = "")

C7_Witness ==
  /\ line = "10 REM a=1 ? PRINT \"x"
  /\ pc = "returned"
  /\ Len(tokens) = 3
  /\ node = [kind |-> "REM", lineno |-> 10, text |-> "a=1 ? PRINT \"x"]

\* The positions of the keyword STEP in the line.
StepAt == {i \in 1..Len(tokens) : IsKeyword(tokens[i], "STEP")}

InSubscriptScan ==
  /\ InScan
  /\ Len(stack) >= 2
  /\ stack[2].op = "acceptSubscript.close"

\* C9: after the variable token, expectVariable returns a Variable with a
\* null subscript and consumes nothing more when the next token is not
\* '['; on '[' it consumes it and scans an expression, then requires the
\* operation ']' as the next token, consumes it and returns the Variable
\* with that expression, and fails otherwise.  The scan of the subscript
\* never consumes a closer that has no opener in the scan.
C9_SubscriptProtocol ==
  /\ [][ /\ At("expectVariable")
              => IF TokAt(index + 1).type = "variable"
                 THEN index' = index + 1 /\ At("acceptSubscript")'
                 ELSE pc' = "thrown"
         /\ (At("acceptSubscript") /\ ~LexemeIs(TokAt(index + 1), "["))
              => /\ index' = index
                 /\ pc' = pc
                 /\ vals' = Append(vals, Variable(tokens[1].num,
                                                  tokens[index].lexeme, Null))
         /\ (At("acceptSubscript") /\ LexemeIs(TokAt(index + 1), "["))
              => /\ index' = index + 1
                 /\ At("expectExpr")'
                 /\ vals' = vals
         /\ At("acceptSubscript.close")
              => IF TokAt(index + 1).type = "operation"
                      /\ LexemeIs(TokAt(index + 1), "]")
                 THEN /\ index' = index + 1
                      /\ pc' = pc
                      /\ IsOperand(vals[Len(vals)])
                      /\ vals'[Len(vals')].kind = "Variable"
                      /\ vals'[Len(vals')].subscript = vals[Len(vals)]
                 ELSE pc' = "thrown" ]_vars
  /\ [](InSubscriptScan =>
          \A k \in 1..Len(ScanConsumed) : Depth(SubSeq(ScanConsumed, 1, k)) >= 0)
  /\ []((line = "10 LET A[2] = B" /\ pc = "returned") =>
          node.variable = Variable(10, "A", exprToJS(<< NumberToken("number", 2, "") >>)))

C9_Witness ==
  /\ line = "10 LET A[2] = B"
  /\ pc = "returned"
  /\ node.variable.subscript.js = "2"

\* The statements parse() knows.
StatementKeywords ==
  {"PRINT", "LET", "REM", "PAUSE", "INPUT", "FOR", "NEXT", "GOTO", "END", "IF"}

\* C10: parse fails, and parseLine returns no node, whenever the token at
\* a statement position (after the line number, or at the start of a THEN
\* or ELSE branch) is not a keyword token or is a keyword that is not one
\* of the ten statement keywords.
C10_UnknownStatementFails ==
  /\ [][(At("parse")
           /\ ~(TokAt(index + 1).type = "keyword"
                  /\ TokAt(index + 1).lexeme \in StatementKeywords))
          => (pc' = "thrown" /\ node' = Null)]_vars
  /\ [](pc = "thrown" => node = Null)
  /\ [][pc = "thrown" => UNCHANGED vars]_vars

C10_Witness ==
  /\ pc = "thrown"
  /\ err.message = "Unexpected token"
  /\ index > 2
  /\ tokens[index] = Token("keyword", "GOSUB")
  /\ IsKeyword(tokens[index - 1], "THEN")

\* The letter c in the other case; another character is left as it is.
LowerOf ==
  [c \in Chars(UpperLetters) |-> CharAt(LowerLetters, IndexIn(c, UpperLetters))]

Recase(c, mode) ==
  CASE mode = "upper" -> UpperChar(c)
    [] mode = "lower" -> (IF c \in DOMAIN LowerOf THEN LowerOf[c] ELSE c)
    [] mode = "swap" -> (IF c \in DOMAIN LowerOf THEN LowerOf[c] ELSE UpperChar(c))

RECURSIVE RecaseText(_, _)
RecaseText(s, mode) ==
  IF s = "" THEN "" ELSE Recase(Head(s), mode) \o RecaseText(Tail(s), mode)

\* The statement text s with the case of its letters changed everywhere but
\* in string literals and in comment text.
RECURSIVE RecaseOutside(_, _)
RecaseOutside(s, mode) ==
  IF s = "" THEN ""
  ELSE LET e == Eat(s)
       IN IF e.eaten = 0 THEN RecaseText(s, mode)
          ELSE IF e.push[1].type = "string"
          THEN SubSeq(s, 1, e.eaten) \o RecaseOutside(Slice(s, e.eaten), mode)
          ELSE IF e.push[1] = Token("keyword", "REM")
          THEN RecaseText(SubSeq(s, 1, 3), mode) \o Slice(s, 3)
          ELSE RecaseText(SubSeq(s, 1, e.eaten), mode)
                 \o RecaseOutside(Slice(s, e.eaten), mode)

\* A line that differs from s only in the case of such letters.
Recased(s, mode) ==
  LET n == LINE(s).len
  IN SubSeq(s, 1, n) \o RecaseOutside(Slice(s, n), mode)

NormalizedTypes == {"keyword", "logic", "function", "constant", "variable"}

\* tokenize() has ended on the line: it returned, or it threw.
TokenizeEnded == pc = "tokenized" \/ (pc = "thrown" /\ ~tokenized)

\* C11: the lexeme of every keyword, logic, function, constant and variable
\* token is uppercase, and a line that differs from the line only in the
\* case of letters outside string literals and comment text tokenizes to
\* the same tokens (and fails when the line fails).
C11_CaseInsensitive ==
  /\ \A i \in 1..Len(tokens) :
       tokens[i].type \in NormalizedTypes
         => tokens[i].lexeme = RecaseText(tokens[i].lexeme, "upper")
  /\ TokenizeEnded =>
       \A mode \in {"upper", "lower", "swap"} :
         tokenizeLine(Recased(line, mode)) = [ok |-> tokenized, tokens |-> tokens]

C11_Witness ==
  /\ line = "10 print \"hi\""
  /\ Recased(line, "swap") = "10 PRINT \"hi\""
  /\ pc = "tokenized"
  /\ tokens = << NumberToken("lineno", 10, ""), Token("keyword", "PRINT"),
                 Token("string", "\"hi\"") >>


TwoCharOps == {"<>", ">=", "<="}

\* C12: at a scan position where the remaining input starts with `<>`,
\* `>=` or `<=` the lexer emits one operation token with that lexeme and
\* goes on after it and the whitespace that follows; `A<>B` lexes as
\* variable A, operation `<>`, variable B.
C12_TwoCharOperators ==
  /\ [][(pc = "tokenize" /\ Len(stmnt) >= 2 /\ SubSeq(stmnt, 1, 2) \in TwoCharOps)
          => /\ tokens' = Append(tokens, Token("operation", SubSeq(stmnt, 1, 2)))
             /\ stmnt' = DropSpaces(SubSeq(stmnt, 3, Len(stmnt)))]_vars
  /\ []((line = "10 PRINT A<>B" /\ pc = "tokenized") =>
          SubSeq(tokens, 3, Len(tokens))
            = << Token("variable", "A"), Token("operation", "<>"),
                 Token("variable", "B") >>)

C12_Witness ==
  /\ line = "10 PRINT A<>B"
  /\ pc = "tokenized"
  /\ tokens[4] = Token("operation", "<>")
  /\ Len(tokens) = 5


NodeKinds == StatementKeywords \cup {"Variable"}

\* The line numbers that a node, the statement nodes nested in it and its
\* Variable carry.
RECURSIVE LineNos(_)
LineNos(n) ==
  IF n = Null THEN {}
  ELSE {n.lineno}
         \cup (IF n.kind \in {"LET", "INPUT", "FOR", "NEXT"}
               THEN {n.variable.lineno} ELSE {})
         \cup (IF n.kind = "IF" THEN LineNos(n.then) \cup LineNos(n.other)
               ELSE {})

\* The number the line begins with.
LeadingNumber(s) ==
  LET t == DropSpaces(s)
  IN DigitsValue(SubSeq(t, 1, Len(t) - Len(DropDigits(t))))

\* C13: every node parseLine builds for a line - the node it returns, the
\* then / else nodes nested in it, every Variable - carries the value of
\* the line's first token, a lineno token whose value is the non-negative
\* integer the line begins with.
C13_NodesCarryLineNumber ==
  /\ tokens # << >> =>
       /\ tokens[1].type = "lineno"
       /\ tokens[1].num \in Nat
       /\ tokens[1].num = LeadingNumber(line)
  /\ \A i \in 1..Len(vals) :
       vals[i].kind \in NodeKinds => LineNos(vals[i]) = {tokens[1].num}
  /\ pc = "returned" => LineNos(node) = {tokens[1].num}

C13_Witness ==
  /\ line = "10 IF A>5 THEN IF A>5 THEN LET A[2] = B ELSE END"
  /\ pc = "returned"
  /\ node.lineno = 10
  /\ node.then.kind = "IF"
  /\ node.then.then.variable.lineno = 10
  /\ node.then.other = [kind |-> "END", lineno |-> 10]


\* C14: once tokenized, whatever calls of peek(n) (n >= 0) and next() are
\* made, 0 <= index <= tokens.length; at index = tokens.length every
\* next() returns the end-of-input sentinel, leaves index where it is and
\* raises no error; peek(n) returns the sentinel whenever
\* index + n >= tokens.length (and tokens[index + n] otherwise), and never
\* moves the cursor.
C14_CursorStaysInBounds ==
  /\ [](tokenized => (0 <= index /\ index <= Len(tokens)))
  /\ [][(CallNext /\ tokenized) =>
          /\ pc' = "tokenized" /\ err' = NoError
          /\ IF index = Len(tokens)
             THEN ret' = Token("eof", "") /\ index' = index
             ELSE ret' = tokens[index + 1] /\ index' = index + 1]_vars
  /\ [][\A n \in 0..MaxPeek :
          (CallPeek(n) /\ tokenized) =>
            /\ pc' = "tokenized" /\ err' = NoError
            /\ index' = index
            /\ ret' = (IF index + n >= Len(tokens) THEN Token("eof", "")
                       ELSE tokens[index + n + 1])]_vars

\* next() has just been called again at the end of the tokens, after a
\* call that had thrown.
C14_Witness ==
  /\ tokenized
  /\ Len(tokens) >= 3
  /\ index = Len(tokens)
  /\ ret = Token("eof", "")
  /\ pc = "tokenized"
  /\ err = NoError


\* s is what is left of t after a non-empty prefix of it is removed.
IsProperSuffix(s, t) ==
  Len(s) < Len(t) /\ s = SubSeq(t, Len(t) - Len(s) + 1, Len(t))

\* The iterations of the scan loop so far: each pushed one token, and the
\* one that met REM a comment token besides.
Iterations ==
  Cardinality({i \in 2..Len(tokens) : tokens[i].type # "comment"})

\* C15: every iteration of the scan loop of tokenize() either throws,
\* leaving the input and the tokens as they are, or pushes a token and
\* removes a non-empty prefix of the remaining input; the loop goes round
\* at most once for each character of the line, and tokenize(), once
\* called, returns or throws.
C15_LexerProgress ==
  /\ [](Iterations + Len(stmnt) <= Len(line))
  /\ [][(pc = "tokenize" /\ stmnt # "") =>
          \/ pc' = "thrown" /\ stmnt' = stmnt /\ tokens' = tokens
          \/ /\ pc' = "tokenize"
             /\ IsProperSuffix(stmnt', stmnt)
             /\ Len(tokens') > Len(tokens)
             /\ SubSeq(tokens', 1, Len(tokens)) = tokens]_vars
  /\ <>(pc \in {"tokenized", "thrown"})

\* The scan loop went round more than once and ran to the end of the input.
C15_Witness ==
  /\ pc = "tokenized"
  /\ Len(tokens) >= 4
  /\ stmnt = ""
  /\ Len(line) >= 10


\* The token classes in the order of the specification, and the pattern of
\* each.
ClassOrder ==
  << "keyword", "string", "logic", "function", "constant", "variable",
     "number", "operation", "linemod" >>

PatternOf(k, s) ==
  CASE k = 1 -> KEY(s)
    [] k = 2 -> QUOTE(s)
    [] k = 3 -> LOGIC(s)
    [] k = 4 -> FUN(s)
    [] k = 5 -> CONST(s)
    [] k = 6 -> VAR(s)
    [] k = 7 -> NUM(s)
    [] k = 8 -> OP(s)
    [] k = 9 -> LINEMOD(s)

\* The classes whose pattern matches a non-empty prefix of s.
Matching(s) == {k \in 1..Len(ClassOrder) : PatternOf(k, s).len > 0}

FirstMatching(s) == CHOOSE k \in Matching(s) : \A o \in Matching(s) : k <= o

\* C16: at each scan position the token emitted is of the first class, in
\* the order keyword, string, logic, function, constant, variable, number,
\* operation, linemod, whose pattern matches a non-empty prefix of the
\* remaining input, and the scan goes on after that match (after the whole
\* line for REM); when no class matches, tokenize fails.  A letter run
\* that begins with a keyword lexes as that keyword.
C16_ClassPriority ==
  /\ [][(pc = "tokenize" /\ stmnt # "") =>
          IF Matching(stmnt) = {}
          THEN pc' = "thrown" /\ err'.name = "ParseError" /\ tokens' = tokens
          ELSE /\ pc' = "tokenize"
               /\ Len(tokens') > Len(tokens)
               /\ tokens'[Len(tokens) + 1].type = ClassOrder[FirstMatching(stmnt)]
               /\ IF tokens'[Len(tokens) + 1] = Token("keyword", "REM")
                  THEN stmnt' = ""
                  ELSE /\ Len(tokens') = Len(tokens) + 1
                       /\ stmnt' = SubSeq(stmnt,
                                          PatternOf(FirstMatching(stmnt), stmnt).len + 1,
                                          Len(stmnt))]_vars
  /\ []((line = "10 TOTAL = 1" /\ pc = "tokenized") =>
          /\ tokens[2] = Token("keyword", "TO")
          /\ tokens[3] = Token("variable", "T"))

C16_Witness ==
  /\ line = "10 TOTAL = 1"
  /\ pc = "tokenized"
  /\ tokens[2] = Token("keyword", "TO")
  /\ Len(tokens) = 7


\* C17: `tokenized` becomes true only when tokenize() has consumed the
\* whole line; while it is false - before tokenize(), and after a
\* tokenize() that threw, with or without tokens pushed - every peek(n) and
\* next() throws 'Call tokenize() first', returns no token and leaves the
\* cursor; tokenizeLine returns tokens exactly for the lines on which
\* tokenize() completes, and then all of them.
C17_AllOrNothing ==
  /\ [](tokenized => stmnt = "")
  /\ [][(~tokenized /\ tokenized') => (pc = "tokenize" /\ stmnt = "")]_vars
  /\ [][(tokenized /\ ~tokenized') => FALSE]_vars
  /\ [][(CallNext /\ ~tokenized) =>
          /\ pc' = "thrown"
          /\ err' = [name |-> "ParseError", hasLineno |-> TRUE,
                     lineno |-> lineno, message |-> "Call tokenize() first"]
          /\ ret' = Undefined
          /\ index' = index]_vars
  /\ [][\A n \in 0..MaxPeek :
          (CallPeek(n) /\ ~tokenized) =>
            /\ pc' = "thrown"
            /\ err'.message = "Call tokenize() first"
            /\ ret' = Undefined
            /\ index' = index]_vars
  /\ [](tokenized => tokenizeLine(line) = [ok |-> TRUE, tokens |-> tokens])
  /\ []((pc = "thrown" /\ err.message = "Invalid syntax near")
          => (~tokenized /\ ~tokenizeLine(line).ok))
  /\ [](~BeginsWithDigits(line) => (~tokenized /\ ~tokenizeLine(line).ok))

\* peek() or next() has thrown after a tokenize() that threw midway.
C17_Witness ==
  /\ line = "10 PRINT \"abc"
  /\ ~tokenized
  /\ Len(tokens) = 2
  /\ stmnt = "\"abc"
  /\ pc = "thrown"
  /\ err.message = "Call tokenize() first"
  /\ err.lineno = 10
  /\ ret = Undefined


\* C18: whenever parseLine returns a statement node, the token cursor is
\* at the end of the line's tokens: nothing is left unread after the
\* statement.
C18_NoTrailingTokens ==
  (pc = "returned" /\ node # Null) => index = Len(tokens)


\* The IF nodes of a tree that have an else branch.
RECURSIVE ElseBranches(_)
ElseBranches(nd) ==
  IF nd.kind # "IF" THEN 0
  ELSE ElseBranches(nd.then)
       + (IF nd.other = Null THEN 0 ELSE 1 + ElseBranches(nd.other))

\* The ELSE keywords of the line.
ElseTokens == { i \in 1..Len(tokens) : IsKeyword(tokens[i], "ELSE") }

\* C19: in a line whose THEN branch is itself an IF, an ELSE belongs to the
\* innermost IF whose THEN statement has just been parsed: the inner IF
\* node gets the else branch, the outer one has none unless a further ELSE
\* follows the inner statement, and no IF gets an else branch without an
\* ELSE of its own.
C19_ElseBindsInnermost ==
  /\ (RefLine.ok /\ RefLine.value.kind = "IF"
        /\ RefLine.value.then.kind = "IF") =>
       /\ pc # "thrown"
       /\ pc = "returned" =>
            /\ node.kind = "IF"
            /\ node.then.kind = "IF"
            /\ node.then.then = RefLine.value.then.then
            /\ node.then.other = RefLine.value.then.other
            /\ node.other = RefLine.value.other
  /\ (pc = "returned" /\ node.kind = "IF" /\ node.then.kind = "IF"
        /\ node.other # Null) => node.then.other # Null
  /\ (pc = "returned" /\ node.kind = "IF" /\ node.then.kind = "IF")
       => ElseBranches(node) <= Cardinality(ElseTokens)


\* The letter and digits at the head of s, whether a `$` follows them, and
\* s with that `$` replaced by a space.
VarName(s) == SubSeq(s, 1, 1 + Run(DigitClass, s, 2))
Marked(s) == Len(s) > Len(VarName(s)) /\ CharAt(s, Len(VarName(s)) + 1) = "$"
Spaced(s) ==
  IF Marked(s)
  THEN VarName(s) \o " " \o SubSeq(s, Len(VarName(s)) + 2, Len(s))
  ELSE s

\* C20: a scan step that pushes a variable token pushes the uppercased
\* letter-plus-digits name only; a `$` that follows the name is consumed
\* with it (and the white space after it) and is not in the token: the step
\* pushes the token and leaves the input that it would with a space in
\* place of the `$`, so a line with `A$` has the tokens of the line with `A`.
C20_MarkerConsumed ==
  /\ [][(pc = "tokenize" /\ Len(tokens') > Len(tokens)
           /\ tokens'[Len(tokens) + 1].type = "variable") =>
          LET t == tokens'[Len(tokens) + 1]
              n == VarName(stmnt)
              e == Eat(Spaced(stmnt))
          IN /\ Len(tokens') = Len(tokens) + 1
             /\ t = Token("variable", toUpperCase(n))
             /\ Chars(t.lexeme) \subseteq Chars(UpperLetters) \cup DigitClass
             /\ stmnt' = DropSpaces(SubSeq(stmnt,
                                           Len(n) + (IF Marked(stmnt) THEN 2 ELSE 1),
                                           Len(stmnt)))
             /\ e.push = << t >>
             /\ e.eaten = Len(stmnt) - Len(stmnt')]_vars
  /\ [](\A i \in 1..Len(tokens) :
          tokens[i].type = "variable" => "$" \notin Chars(tokens[i].lexeme))
  /\ []((line = "10 LET A$ = B1$" /\ pc = "tokenized") =>
          tokens = tokenizeLine("10 LET A = B1").tokens)

\* A name with its `$` has been lexed, and the scan went on after the `$`.
C20_Witness ==
  /\ line = "10 LET A$ = B1$"
  /\ pc = "tokenize"
  /\ tokens = << NumberToken("lineno", 10, ""), Token("keyword", "LET"),
                 Token("variable", "A") >>
  /\ stmnt = "= B1$"


====
